---- MODULE Spec2Model ----
(***************************************************************************)
(* Model of the bigdataball pipeline: incremental ingestion of daily log   *)
(* spreadsheets into the SQLite store (daily_fantasy_log_upload.py,        *)
(* daily_player_upload.py), the out-of-band name patch (run_db_patch.py)   *)
(* and the summary pipeline (create_summary_tables.py).                    *)
(*                                                                         *)
(* Numbers: DK_POINTS and MINUTES are integers; every per-minute rate is   *)
(* held in hundredths (1.14 is 114), i.e. the value after round(.., 2).    *)
(* Dates are day ordinals; the "%Y-%m-%d" text of a date is a fixed-width  *)
(* string built from the ordinal.                                          *)
(***************************************************************************)
EXTENDS Integers, Sequences, FiniteSets, TLC

VARIABLES
    tables,             \* names of the tables that exist in the SQLite file
    logs,               \* [category -> sequence of rows] fantasy_logs / player_logs
    dim_players,        \* sequence of [PLAYER_ID, PLAYER_NAME] rows
    folder,             \* [category -> set of file names] NEW_FILES_FOLDER
    archive,            \* [category -> set of file names] PROCESSED_FOLDER
    pc,                 \* "idle" or "loop": position of the ingestion script
    cat,                \* category of the running ingestion script
    existing_logs_df,   \* log_key column pre-loaded at the start of main()
    existing_log_keys,  \* the in-memory key set of the loop body
    files_to_process,   \* files of the run not yet visited, in sorted order
    fantasy_averages,   \* rows of the summary table
    views,              \* names of the views that exist, in creation order
    exported,           \* views read by the last CSV export
    today,              \* pd.Timestamp.now().normalize() as a day ordinal
    downloads,          \* number of files placed in the input folders so far
    runs,               \* number of ingestion runs started so far
    runRead,            \* history: files read by the current/last run, in order
    runAdded,           \* history: log keys appended by the current/last run
    lastError,          \* history: step at which the last processed file failed
    lastFile,           \* history: file visited by the last loop iteration
    doneFiles,          \* history: [category -> files archived by earlier runs]
    basis,              \* history: the inputs the summary table was computed from
    aggHistory,         \* history: outcome of the last create_fantasy_averages_table
    viewAttempts,       \* history: the views the last create_convenience_views tried
    dk_file,            \* DKEntries.csv in Downloads: its Name column
    scorer,             \* <<external name, reference name>> -> score of thefuzz
    final_names_to_query, \* the list of canonical names the last slate run resolved
    vw_daily_slate,     \* the view vw_daily_slate: its PLAYER IN list
    slateResult,        \* history: how the last slate run ended
    drive,              \* [category -> the files the Drive query of its job returns]
    latest_file         \* history: [category -> what find_latest_file returned last]

vars == <<tables, logs, dim_players, folder, archive, pc, cat, existing_logs_df,
          existing_log_keys, files_to_process, fantasy_averages, views, exported,
          today, downloads, runs, runRead, runAdded, lastError, lastFile, doneFiles,
          basis, aggHistory, viewAttempts, dk_file, scorer, final_names_to_query,
          vw_daily_slate, slateResult, drive, latest_file>>

ingestVars == <<tables, logs, dim_players, folder, archive, pc, cat, existing_logs_df,
                existing_log_keys, files_to_process, downloads, runs, runRead,
                runAdded, lastError, lastFile, doneFiles>>

summaryVars == <<fantasy_averages, views, exported, basis, aggHistory, viewAttempts>>

slateVars == <<dk_file, scorer, final_names_to_query, vw_daily_slate, slateResult>>

driveVars == <<drive, latest_file>>

-----------------------------------------------------------------------------
(* Bounds of the exploration *)

MaxDownloads == 3
MaxRuns == 2
MaxLogRows == 3
LastDay == 75

(* Program constants *)

WindowDays == 30

-----------------------------------------------------------------------------
(* Tables, categories, cell values *)

Cats == {"fantasy", "player"}

LOGS_TABLE_NAME(c) == IF c = "fantasy" THEN "fantasy_logs" ELSE "player_logs"

PLAYERS_TABLE_NAME == "dim_players"

MAP_TEAMS_TABLE_NAME == "map_teams"

AVERAGES_TABLE_NAME == "fantasy_averages"

Days == 1..99

\* A DATE cell of a spreadsheet: an Excel datetime, a date written as text,
\* or text that is no date.
DateCell(kind, day) == [kind |-> kind, day |-> day]

\* pd.to_datetime raises on a cell that is no date.
Malformed(cell) == cell.kind = "bad"

to_datetime(cell) == cell.day

Pad3(n) ==
    IF n < 10 THEN "00" \o ToString(n)
    ELSE IF n < 100 THEN "0" \o ToString(n)
    ELSE ToString(n)

\* .dt.strftime("%Y-%m-%d")
strftime(day) == "2025-" \o Pad3(day)

\* pd.to_datetime of a DATE string read back from the store
parse_date(s) == CHOOSE d \in Days : strftime(d) = s

\* SEASON_SEGMENT text as a sequence of tokens: words and digit runs.
Word(s) == [k |-> "w", s |-> s, n |-> 0]

Digits(n) == [k |-> "d", s |-> "", n |-> n]

RegularSeg == <<Word("NBA"), Digits(2024), Word("-"), Digits(25), Word("Regular Season")>>

PlayoffSeg == <<Word("NBA"), Digits(2025), Word("Playoffs")>>

PreseasonSeg == <<Word("NBA"), Digits(2025), Word("Preseason")>>

\* a segment that names a tournament game and a play-in game
TournamentSeg == <<Word("NBA"), Digits(1999), Word("Play-In"), Word("In-Season Tournament")>>

\* a segment with no run of four digits
NoYearSeg == <<Word("NBA"), Digits(25), Word("Regular Season")>>

\* A cleaned spreadsheet row (columns already sanitized and renamed).
Row(pid, name, date, team, seg, started, pts, min) ==
    [PLAYER_ID |-> pid, PLAYER |-> name, DATE |-> date, TEAM |-> team,
     SEASON_SEGMENT |-> seg, STARTED |-> started, DK_POINTS |-> pts, MINUTES |-> min]

-----------------------------------------------------------------------------
(* The spreadsheets that can arrive.  The sequences list the file names in *)
(* ascending lexicographic order.                                          *)

FileOrder(c) ==
    IF c = "fantasy"
    THEN <<"02-09-2025-nba-season-dfs-feed.xlsx",
           "02-10-2025-nba-season-dfs-feed.xlsx",
           "02-11-2025-nba-season-dfs-feed.xlsx">>
    ELSE <<"02-09-2025-nba-season-player-feed.xlsx",
           "02-10-2025-nba-season-player-feed.xlsx">>

FileNames(c) == {FileOrder(c)[i] : i \in 1..Len(FileOrder(c))}

GG1 == Row(1, "GG Jackson", DateCell("datetime", 5), "Memphis", RegularSeg, "Y", 30, 30)

AJ1 == Row(2, "AJ Green", DateCell("datetime", 5), "Milwaukee", RegularSeg, "N", 0, 0)

GG2 == Row(1, "Gregory Jackson", DateCell("text", 40), "Memphis", RegularSeg, "N", 10, 5)

AJ2 == Row(2, "AJ Green", DateCell("datetime", 40), "Milwaukee", PlayoffSeg, "Y", 7, 0)

KD1 == Row(3, "Kevin Durant", DateCell("datetime", 41), "Seattle", PreseasonSeg, "Y", 12, 24)

BadRow == Row(3, "Kevin Durant", DateCell("bad", 0), "Seattle", RegularSeg, "Y", 1, 1)

\* pd.read_excel(...) followed by the cleaning steps: the rows of the file.
\* The feeds are cumulative: a later file repeats the rows of an earlier one,
\* and after a day without games it holds nothing else.
read_excel(f) ==
    CASE f = "02-09-2025-nba-season-dfs-feed.xlsx" -> <<GG1, AJ1>>
      [] f = "02-10-2025-nba-season-dfs-feed.xlsx" -> <<GG1, AJ1, GG2, AJ2, AJ2>>
      [] f = "02-11-2025-nba-season-dfs-feed.xlsx" -> <<GG2, KD1, BadRow>>
      [] f = "02-09-2025-nba-season-player-feed.xlsx" -> <<GG2, KD1>>
      [] f = "02-10-2025-nba-season-player-feed.xlsx" -> <<GG2, KD1>>

-----------------------------------------------------------------------------
(* Sequence helpers *)

Range(s) == {s[i] : i \in 1..Len(s)}

\* Mutant of sorted: the names in S in descending order.
sorted_descending(c, S) ==
    LET up == SelectSeq(FileOrder(c), LAMBDA f : f \in S)
    IN  [i \in 1..Len(up) |-> up[Len(up) + 1 - i]]

\* sorted(glob.glob(...)): the names in S in ascending order
sorted(c, S) == SelectSeq(FileOrder(c), LAMBDA f : f \in S)


-----------------------------------------------------------------------------
(* Ingestion: daily_fantasy_log_upload.py and daily_player_upload.py.  The *)
(* two scripts differ in folders, table name and column map only.          *)

\* PLAYER_ID.astype(str) + "_" + DATE
log_key(pid, datestr) == ToString(pid) \o "_" \o datestr

\* The exception pd.read_sql raises at the pre-load, "none" when it returns.
\* dbFault is the failure the environment injects (a locked file, ...).
read_sql_error(c, dbFault) ==
    IF LOGS_TABLE_NAME(c) \notin tables THEN "no such table" ELSE dbFault

\* Mutant of load_log_keys: the key built in the other order, date first.
load_log_keys_swapped(c) ==
    {strftime(parse_date(r.DATE)) \o "_" \o ToString(r.PLAYER_ID) : r \in Range(logs[c])}

\* SELECT DISTINCT "PLAYER_ID", "DATE" and the log_key column built from it
load_log_keys(c) ==
    {log_key(r.PLAYER_ID, strftime(parse_date(r.DATE))) : r \in Range(logs[c])}

\* Mutant of preload: a missing table stops the script like any other error.
preload_strict(c, dbFault) ==
    LET exc == read_sql_error(c, dbFault)
    IN  IF exc = "none" THEN [error |-> "none", keys |-> load_log_keys(c)]
        ELSE [error |-> exc, keys |-> {}]

\* The pre-load of main(): the keys it goes on with, or the error it stops on.
preload(c, dbFault) ==
    LET exc == read_sql_error(c, dbFault)
    IN  IF exc = "none" THEN [error |-> "none", keys |-> load_log_keys(c)]
        ELSE IF exc = "no such table" THEN [error |-> "none", keys |-> {}]
        ELSE [error |-> exc, keys |-> {}]

\* 4a: the DATE column parsed and overwritten with its "%Y-%m-%d" text
parse_fails(raw) == \E i \in 1..Len(raw) : Malformed(raw[i].DATE)

cleaned_data(raw) ==
    [i \in 1..Len(raw) |-> [raw[i] EXCEPT !.DATE = strftime(to_datetime(raw[i].DATE))]]

row_key(r) == log_key(r.PLAYER_ID, r.DATE)

\* 4b: the rows whose log_key is not in the key set
truly_new_logs(cleaned, keys) == SelectSeq(cleaned, LAMBDA r : row_key(r) \notin keys)

\* .drop_duplicates(subset=["PLAYER_ID"]): the first row of each identifier
RECURSIVE drop_duplicates(_, _)
drop_duplicates(rows, seen) ==
    IF rows = <<>> THEN <<>>
    ELSE IF Head(rows).PLAYER_ID \in seen THEN drop_duplicates(Tail(rows), seen)
    ELSE <<Head(rows)>> \o drop_duplicates(Tail(rows), seen \cup {Head(rows).PLAYER_ID})

\* Mutant of truly_new_players: the identifiers already in dim_players are
\* not filtered out.
truly_new_players_unfiltered(newLogs, registry) ==
    LET new_players == drop_duplicates(newLogs, {})
    IN  [i \in 1..Len(new_players) |->
            [PLAYER_ID |-> new_players[i].PLAYER_ID, PLAYER_NAME |-> new_players[i].PLAYER]]

\* 4c: the players of the retained rows that dim_players does not hold yet
truly_new_players(newLogs, registry) ==
    LET new_players == drop_duplicates(newLogs, {})
        existing_ids == {registry[i].PLAYER_ID : i \in 1..Len(registry)}
        fresh == SelectSeq(new_players, LAMBDA r : r.PLAYER_ID \notin existing_ids)
    IN  [i \in 1..Len(fresh) |->
            [PLAYER_ID |-> fresh[i].PLAYER_ID, PLAYER_NAME |-> fresh[i].PLAYER]]

\* "PLAYER_ID" INTEGER PRIMARY KEY: the insert is refused when an identifier
\* is already in the table or occurs twice in the inserted rows.
pk_conflict(registry, rows) ==
    \/ \E i \in 1..Len(rows), j \in 1..Len(registry) : rows[i].PLAYER_ID = registry[j].PLAYER_ID
    \/ \E i, j \in 1..Len(rows) : i /= j /\ rows[i].PLAYER_ID = rows[j].PLAYER_ID

\* Mutant of insert_players: if_exists="replace"
insert_players_replace(registry, rows) == rows

\* to_sql(PLAYERS_TABLE_NAME, if_exists="append")
insert_players(registry, rows) == registry \o rows

\* Mutant of append_logs: if_exists="replace"
append_logs_replace(stored, rows) == rows

\* to_sql(LOGS_TABLE_NAME, if_exists="append")
append_logs(stored, rows) == stored \o rows

\* The key set the loop body filters with (line 151 / 175 of the scripts).
keys_for_file(df_keys, loop_keys) == df_keys

\* Mutant of on_exception: the loop goes on with the next file.
on_exception_continue == "continue"

\* What the script does once a file has raised: "stop" is the break.
on_exception == "stop"

Faults == {"none", "read", "registry", "append", "move"}

\* Mutant of process_file: the rows are appended to the store before the
\* players are inserted in the registry.
process_file_append_first(f, registry, stored, df_keys, loop_keys, fault) ==
    LET raw == read_excel(f)
        unchanged(err) == [error |-> err, registry |-> registry, stored |-> stored,
                           keys |-> loop_keys, added |-> {}, moved |-> FALSE]
    IN  IF fault = "read" THEN unchanged("read")
        ELSE IF parse_fails(raw) THEN unchanged("parse")
        ELSE
        LET keys == keys_for_file(df_keys, loop_keys)
            new_logs == truly_new_logs(cleaned_data(raw), keys)
            players == truly_new_players(new_logs, registry)
        IN  IF new_logs = <<>> THEN
                [error |-> IF fault = "move" THEN "move" ELSE "none",
                 registry |-> registry, stored |-> stored, keys |-> keys,
                 added |-> {}, moved |-> fault /= "move"]
            ELSE IF fault = "append" THEN [unchanged("append") EXCEPT !.keys = keys]
            ELSE IF fault = "registry" \/ pk_conflict(registry, players) THEN
                [error |-> IF fault = "registry" THEN "registry" ELSE "integrity",
                 registry |-> registry, stored |-> append_logs(stored, new_logs),
                 keys |-> keys, added |-> {}, moved |-> FALSE]
            ELSE
                [error |-> IF fault = "move" THEN "move" ELSE "none",
                 registry |-> insert_players(registry, players),
                 stored |-> append_logs(stored, new_logs),
                 keys |-> keys \cup {row_key(new_logs[i]) : i \in 1..Len(new_logs)},
                 added |-> {row_key(new_logs[i]) : i \in 1..Len(new_logs)},
                 moved |-> fault /= "move"]

\* One iteration of the loop over files_to_process for file f, with the
\* failure `fault` injected by the environment at the step it names.
\* Result: the step that raised ("none" when the file was moved), the stores
\* and the key set as the iteration leaves them, the keys it appended.
process_file(f, registry, stored, df_keys, loop_keys, fault) ==
    LET raw == read_excel(f)
        unchanged(err) == [error |-> err, registry |-> registry, stored |-> stored,
                           keys |-> loop_keys, added |-> {}, moved |-> FALSE]
    IN  IF fault = "read" THEN unchanged("read")
        ELSE IF parse_fails(raw) THEN unchanged("parse")
        ELSE
        LET keys == keys_for_file(df_keys, loop_keys)
            new_logs == truly_new_logs(cleaned_data(raw), keys)
            players == truly_new_players(new_logs, registry)
        IN  IF new_logs = <<>> THEN
                [error |-> IF fault = "move" THEN "move" ELSE "none",
                 registry |-> registry, stored |-> stored, keys |-> keys,
                 added |-> {}, moved |-> fault /= "move"]
            ELSE IF fault = "registry" \/ pk_conflict(registry, players) THEN
                [unchanged(IF fault = "registry" THEN "registry" ELSE "integrity")
                    EXCEPT !.keys = keys]
            ELSE IF fault = "append" THEN
                [error |-> "append", registry |-> insert_players(registry, players),
                 stored |-> stored, keys |-> keys, added |-> {}, moved |-> FALSE]
            ELSE
                [error |-> IF fault = "move" THEN "move" ELSE "none",
                 registry |-> insert_players(registry, players),
                 stored |-> append_logs(stored, new_logs),
                 keys |-> keys \cup {row_key(new_logs[i]) : i \in 1..Len(new_logs)},
                 added |-> {row_key(new_logs[i]) : i \in 1..Len(new_logs)},
                 moved |-> fault /= "move"]


-----------------------------------------------------------------------------
(* Aggregation: create_summary_tables.create_fantasy_averages_table.  The  *)
(* columns modelled are the group keys, GP, GS, the point and minute means, *)
(* the six sums and the three per-minute rates; the standard deviations,   *)
(* SALPG and USG are left out.                                             *)

Null == "NaN"

\* The rows of the map_teams table.
map_teams ==
    <<[RAW_TEAM_NAME |-> "Memphis", TEAM_ABBREVIATION |-> "MEM"],
      [RAW_TEAM_NAME |-> "Milwaukee", TEAM_ABBREVIATION |-> "MIL"],
      [RAW_TEAM_NAME |-> "Memphis Grizzlies", TEAM_ABBREVIATION |-> "MEM"]>>

\* str.contains(pattern) over the tokens of a segment
contains(seg, words) == \E i \in 1..Len(seg) : seg[i].k = "w" /\ seg[i].s \in words

\* np.select(conditions, choices, default=None)
season_type(seg) ==
    IF contains(seg, {"Regular Season", "In-Season Tournament"}) THEN "Regular"
    ELSE IF contains(seg, {"Playoffs", "Play-In"}) THEN "Playoffs"
    ELSE Null

RECURSIVE first_four(_)
first_four(n) == IF n >= 10000 THEN first_four(n \div 10) ELSE n

\* str.extract(r"(\d{4})"): the first four digits of the first digit run
\* that has four, 0 when there is none
extract_year(seg) ==
    LET hits == {i \in 1..Len(seg) : seg[i].k = "d" /\ seg[i].n >= 1000}
    IN  IF hits = {} THEN 0
        ELSE first_four(seg[CHOOSE i \in hits : \A j \in hits : i <= j].n)

Pad2(n) == IF n < 10 THEN "0" \o ToString(n) ELSE ToString(n)

\* Mutant of end_year: the start year is not incremented
end_year_same(y) == Pad2(y % 100)

\* (start_year_numeric + 1).astype(str).str.slice(2, 4)
end_year(y) == Pad2((y + 1) % 100)

season_key(seg) ==
    LET y == extract_year(seg)
    IN  IF y = 0 \/ season_type(seg) = Null THEN Null
        ELSE IF season_type(seg) = "Regular" THEN ToString(y) \o "-" \o end_year(y)
        ELSE ToString(y)

\* The data frame after the two left joins, the classification and
\* dropna(subset=["SEASON_TYPE", "SEASON_KEY"]).  ix and mx keep the frame's
\* rows apart: the position of the log row and of the matching mapping row.
joined(lg, reg) ==
    LET name(pid) ==
            IF \E j \in 1..Len(reg) : reg[j].PLAYER_ID = pid
            THEN reg[CHOOSE j \in 1..Len(reg) : reg[j].PLAYER_ID = pid].PLAYER_NAME
            ELSE Null
        matches(team) == {j \in 1..Len(map_teams) : map_teams[j].RAW_TEAM_NAME = team}
        row(i, j) ==
            [ix |-> i, mx |-> j,
             SEASON_TYPE |-> season_type(lg[i].SEASON_SEGMENT),
             PLAYER_ID |-> lg[i].PLAYER_ID,
             PLAYER |-> name(lg[i].PLAYER_ID),
             SEASON_KEY |-> season_key(lg[i].SEASON_SEGMENT),
             TEAM_ABBREVIATION |-> IF j = 0 THEN Null ELSE map_teams[j].TEAM_ABBREVIATION,
             DATE |-> parse_date(lg[i].DATE),
             STARTED |-> lg[i].STARTED,
             DK_POINTS |-> lg[i].DK_POINTS,
             MINUTES |-> lg[i].MINUTES]
    IN  {row(i, j) : i \in 1..Len(lg), j \in 0..Len(map_teams)}

prepared(lg, reg) ==
    {r \in joined(lg, reg) :
        /\ IF r.mx = 0
           THEN \A j \in 1..Len(map_teams) : map_teams[j].RAW_TEAM_NAME /= lg[r.ix].TEAM
           ELSE map_teams[r.mx].RAW_TEAM_NAME = lg[r.ix].TEAM
        /\ r.SEASON_TYPE /= Null
        /\ r.SEASON_KEY /= Null}

\* pd.Timestamp.now().normalize() - pd.Timedelta(days=30)
thirty_days_ago(day) == day - WindowDays

\* Mutant of in_window: the first day of the window is left out
in_window_after(r, day) == r.DATE > thirty_days_ago(day)

in_window(r, day) == r.DATE >= thirty_days_ago(day)

\* Mutant of group_key: the raw team name is a grouping column too
group_key_raw_team(r) ==
    [SEASON_TYPE |-> r.SEASON_TYPE, PLAYER_ID |-> r.PLAYER_ID, PLAYER |-> r.PLAYER,
     SEASON |-> r.SEASON_KEY, TEAM |-> r.TEAM_ABBREVIATION, mx |-> r.mx]

group_key(r) ==
    [SEASON_TYPE |-> r.SEASON_TYPE, PLAYER_ID |-> r.PLAYER_ID, PLAYER |-> r.PLAYER,
     SEASON |-> r.SEASON_KEY, TEAM |-> r.TEAM_ABBREVIATION]

\* df.groupby([...]) leaves out the rows that hold a null in a key column.
groups(df) ==
    {group_key(r) : r \in {x \in df : x.PLAYER /= Null /\ x.TEAM_ABBREVIATION /= Null}}

members(df, g) == {r \in df : group_key(r) = g}

\* the "sum" of a column over the rows S
RECURSIVE SumOver(_, _)
SumOver(S, column) ==
    IF S = {} THEN 0
    ELSE LET x == CHOOSE y \in S : TRUE IN x[column] + SumOver(S \ {x}, column)

\* round(n / d) to the nearest integer, ties to the even one
round_div(n, d) ==
    LET q == n \div d
        r == n % d
    IN  IF 2 * r < d THEN q
        ELSE IF 2 * r > d THEN q + 1
        ELSE IF q % 2 = 0 THEN q ELSE q + 1

\* Mutant of rate: the mean of the per-game rates (GAME_FPPM)
rate_mean_of_games(S) ==
    LET game(r) == [v |-> IF r.MINUTES = 0 THEN 0 ELSE round_div(100 * r.DK_POINTS, r.MINUTES),
                    ix |-> r.ix, mx |-> r.mx]
    IN  IF S = {} THEN 0 ELSE round_div(SumOver({game(r) : r \in S}, "v"), Cardinality(S))

\* (sum / sum).replace([inf, -inf], 0).fillna(0), rounded to 2 decimals:
\* the rate in hundredths
rate(S) ==
    LET p == SumOver(S, "DK_POINTS")
        m == SumOver(S, "MINUTES")
    IN  IF m = 0 THEN 0 ELSE round_div(100 * p, m)

\* "mean" followed by round(.., decimals) and fillna(0): scale is 10^decimals
mean(S, column, scale) ==
    IF S = {} THEN 0 ELSE round_div(scale * SumOver(S, column), Cardinality(S))

\* Mutant of summary_row: the trailing window filters every aggregate
summary_row_windowed(df, g, day) ==
    LET all == {r \in members(df, g) : in_window(r, day)}
        gs == {r \in all : r.STARTED = "Y"}
    IN  [SEASON_TYPE |-> g.SEASON_TYPE, PLAYER_ID |-> g.PLAYER_ID, PLAYER |-> g.PLAYER,
         SEASON |-> g.SEASON, TEAM |-> g.TEAM,
         GP |-> Cardinality(all), GS |-> Cardinality(gs),
         FPPG |-> mean(all, "DK_POINTS", 100), MPG |-> mean(all, "MINUTES", 10),
         GSFPPG |-> mean(gs, "DK_POINTS", 100), GSMPG |-> mean(gs, "MINUTES", 10),
         DK_POINTS_sum |-> SumOver(all, "DK_POINTS"), MINUTES_sum |-> SumOver(all, "MINUTES"),
         GS_DK_POINTS_sum |-> SumOver(gs, "DK_POINTS"),
         GS_MINUTES_sum |-> SumOver(gs, "MINUTES"),
         L30_DK_POINTS_sum |-> SumOver(all, "DK_POINTS"),
         L30_MINUTES_sum |-> SumOver(all, "MINUTES"),
         FPPM |-> rate(all), GSFPPM |-> rate(gs), L30FPPM |-> rate(all)]

\* Mutant of summary_row: a game that was not started is a zero in the
\* starter columns
summary_row_zero_filled(df, g, day) ==
    LET all == members(df, g)
        gs == {r \in all : r.STARTED = "Y"}
        l30 == {r \in all : in_window(r, day)}
        over_all(sum, scale) == IF all = {} THEN 0 ELSE round_div(scale * sum, Cardinality(all))
    IN  [SEASON_TYPE |-> g.SEASON_TYPE, PLAYER_ID |-> g.PLAYER_ID, PLAYER |-> g.PLAYER,
         SEASON |-> g.SEASON, TEAM |-> g.TEAM,
         GP |-> Cardinality(all), GS |-> Cardinality(gs),
         FPPG |-> mean(all, "DK_POINTS", 100), MPG |-> mean(all, "MINUTES", 10),
         GSFPPG |-> over_all(SumOver(gs, "DK_POINTS"), 100),
         GSMPG |-> over_all(SumOver(gs, "MINUTES"), 10),
         DK_POINTS_sum |-> SumOver(all, "DK_POINTS"), MINUTES_sum |-> SumOver(all, "MINUTES"),
         GS_DK_POINTS_sum |-> SumOver(gs, "DK_POINTS"),
         GS_MINUTES_sum |-> SumOver(gs, "MINUTES"),
         L30_DK_POINTS_sum |-> SumOver(l30, "DK_POINTS"),
         L30_MINUTES_sum |-> SumOver(l30, "MINUTES"),
         FPPM |-> rate(all), GSFPPM |-> rate(gs), L30FPPM |-> rate(l30)]

summary_row(df, g, day) ==
    LET all == members(df, g)
        gs == {r \in all : r.STARTED = "Y"}
        l30 == {r \in all : in_window(r, day)}
    IN  [SEASON_TYPE |-> g.SEASON_TYPE, PLAYER_ID |-> g.PLAYER_ID, PLAYER |-> g.PLAYER,
         SEASON |-> g.SEASON, TEAM |-> g.TEAM,
         GP |-> Cardinality(all),
         GS |-> Cardinality(gs),
         FPPG |-> mean(all, "DK_POINTS", 100),
         MPG |-> mean(all, "MINUTES", 10),
         GSFPPG |-> mean(gs, "DK_POINTS", 100),
         GSMPG |-> mean(gs, "MINUTES", 10),
         DK_POINTS_sum |-> SumOver(all, "DK_POINTS"),
         MINUTES_sum |-> SumOver(all, "MINUTES"),
         GS_DK_POINTS_sum |-> SumOver(gs, "DK_POINTS"),
         GS_MINUTES_sum |-> SumOver(gs, "MINUTES"),
         L30_DK_POINTS_sum |-> SumOver(l30, "DK_POINTS"),
         L30_MINUTES_sum |-> SumOver(l30, "MINUTES"),
         FPPM |-> rate(all),
         GSFPPM |-> rate(gs),
         L30FPPM |-> rate(l30)]

\* final_df: one row per group
averages(lg, reg, day) ==
    LET df == prepared(lg, reg)
    IN  {summary_row(df, g, day) : g \in groups(df)}

required_tables == {LOGS_TABLE_NAME("fantasy"), MAP_TEAMS_TABLE_NAME, PLAYERS_TABLE_NAME}

NoBasis == [logs |-> <<>>, dim_players |-> <<>>, today |-> 0]

\* aggHistory before any run.  result: what create_fantasy_averages_table
\* came to ("missing": a required table is absent, "failed": an exception,
\* "ok"); sameInputs, sameDay: the run read the store and registry, and ran
\* on the date, of the run that wrote the table it replaced; dropped: a row
\* of the replaced table is not in the new one.
NoAggregation == [result |-> "none", sameInputs |-> FALSE, sameDay |-> FALSE,
                  dropped |-> FALSE]

\* Mutant of to_sql_replace: if_exists="append"
to_sql_append(old, new) == old \cup new

\* final_df.to_sql(AVERAGES_TABLE_NAME, if_exists="replace")
to_sql_replace(old, new) == new

\* Mutant of views_wanted: the views are created whatever the aggregation returned
views_wanted_always(created) == TRUE

\* run_summary_pipeline: "if create_fantasy_averages_table():"
views_wanted(created) == created

ViewNames == <<"vw_player_averages_regular_season", "vw_player_averages_playoffs">>

view_filter(v) ==
    IF v = "vw_player_averages_regular_season" THEN "Regular" ELSE "Playoffs"

\* "with engine.begin()": DROP VIEW IF EXISTS v, then CREATE VIEW v.  existing
\* lists the views of the database, oldest first.  fails: CREATE VIEW raises.
\* rollback: whether the driver undoes the DROP when the block is left by the
\* exception (pysqlite opens no transaction before a DDL statement unless the
\* connection is set up for it).
create_view(existing, v, fails, rollback) ==
    LET dropped == SelectSeq(existing, LAMBDA x : x /= v)
    IN  IF ~fails THEN Append(dropped, v)
        ELSE IF rollback THEN existing
        ELSE dropped

\* Mutant of after_view_error: the first failure ends create_convenience_views
after_view_error_return == "return"

\* the except clause inside "for view_name, season_type in views_to_create"
after_view_error == "continue"

\* create_convenience_views over the views still to create.  acc holds the
\* views of the database, the list returned so far and the views tried.
RECURSIVE create_convenience_views(_, _, _, _)
create_convenience_views(names, acc, failing, rollback) ==
    IF names = <<>> THEN acc
    ELSE LET v == Head(names)
             fails == v \in failing
             next == [views |-> create_view(acc.views, v, fails, rollback),
                      successful_views |-> IF fails THEN acc.successful_views
                                           ELSE Append(acc.successful_views, v),
                      attempts |-> Append(acc.attempts, [view |-> v, created |-> ~fails])]
         IN  IF fails /\ after_view_error = "return" THEN next
             ELSE create_convenience_views(Tail(names), next, failing, rollback)

\* export_views_to_csv: the views read, in list order; an exception ends the
\* loop after `reads` views.
export_views_to_csv(successful, reads) ==
    {successful[i] : i \in {j \in 1..Len(successful) : j <= reads}}

\* An entry of the "files" list of the Drive API
Item(id, name, createdTime) == [id |-> id, name |-> name, createdTime |-> createdTime]

\* latest_file before any run of the job, and the None of find_latest_file
NotRun == [found |-> "not run", file |-> Item(0, "", 0)]

None == [found |-> "none", file |-> Item(0, "", 0)]

\* position of a file name in the alphabetical order of the names of its feed
NameRank(name) ==
    CHOOSE i \in 1..Len(FileOrder("fantasy")) : \E c \in Cats : i <= Len(FileOrder(c)) /\ FileOrder(c)[i] = name

\* Mutant of find_latest_file: the alphabetically last file, as its docstring says
find_last_by_name(items) ==
    IF items = <<>> THEN None
    ELSE LET top == {i \in 1..Len(items) :
                        \A j \in 1..Len(items) : NameRank(items[j].name) <= NameRank(items[i].name)}
         IN  [found |-> "file", file |-> items[CHOOSE i \in top : \A j \in top : j <= i]]

\* find_latest_file on the list the query returned:
\* sorted(items, key=lambda x: x["createdTime"])[-1], the sort being stable.
\* createdTime stands for the rank of the ISO timestamp among the strings.
find_latest_file(items) ==
    IF items = <<>> THEN None
    ELSE LET top == {i \in 1..Len(items) :
                        \A j \in 1..Len(items) : items[j].createdTime <= items[i].createdTime}
         IN  [found |-> "file", file |-> items[CHOOSE i \in top : \A j \in top : j <= i]]

\* The Drive variables when the Drive job is not looked at.
NoDrive ==
    /\ drive = [c \in Cats |-> <<>>]
    /\ latest_file = [c \in Cats |-> NotRun]

\* The slate variables before any slate run.
NoSlate ==
    /\ dk_file = [exists |-> FALSE, Name |-> <<>>]
    /\ scorer = <<>>
    /\ final_names_to_query = <<>>
    /\ vw_daily_slate = [exists |-> FALSE, names |-> {}]
    /\ slateResult = "none"

\* dk_df['Name'].unique().tolist(): the names in order of first appearance
unique(names) ==
    SelectSeq([i \in 1..Len(names) |-> [ix |-> i, name |-> names[i]]],
              LAMBDA x : \A j \in 1..(x.ix - 1) : names[j] /= x.name)

dk_names(file) == [i \in 1..Len(unique(file.Name)) |-> unique(file.Name)[i].name]

\* SELECT DISTINCT PLAYER FROM vw_player_averages_regular_season
valid_db_names(table) == {g.PLAYER : g \in {x \in table : x.SEASON_TYPE = view_filter(ViewNames[1])}}

\* the reference names no other reference name outscores for dk_name
best_matches(dk_name, refs, sc) ==
    {r \in refs : \A q \in refs : sc[<<dk_name, r>>] >= sc[<<dk_name, q>>]}

\* process.extractOne(dk_name, valid_db_names) for every name of the slate:
\* the possible results.  Which of several best names comes first depends
\* on the order of the rows the query returns.
extractOne(names, refs, sc) ==
    IF refs = {} THEN {<<>>}
    ELSE {pick \in [Range(names) -> refs] :
              \A n \in Range(names) : pick[n] \in best_matches(n, refs, sc)}

score_threshold == 90

\* "GP >=20" in the WHERE clause of vw_daily_slate
MinGames == 20

\* The rows vw_daily_slate returns over the summary table, names being its
\* PLAYER IN list: WHERE (SEASON = '2024-25' AND GP >=20) OR SEASON = '2025-26'
\* AND PLAYER IN (...), in which AND binds before OR.
vw_daily_slate_rows(table, names) ==
    {g \in table :
        /\ g.SEASON_TYPE = view_filter(ViewNames[1])
        /\ \/ (g.SEASON = "2024-25" /\ g.GP >= MinGames)
           \/ (g.SEASON = "2025-26" /\ g.PLAYER \in names)}

\* Mutant of accepted: a score equal to the threshold is rejected
accepted_above(score) == score > score_threshold

\* "if score >= 90:"
accepted(score) == score >= score_threshold

\* "for dk_name in dk_names": the matches appended, in slate order
matched(names, sc, pick) ==
    LET kept == SelectSeq(names, LAMBDA n : accepted(sc[<<n, pick[n]>>]))
    IN  [i \in 1..Len(kept) |-> pick[kept[i]]]

\* the orders in which a set of names can be iterated
Orders(S) ==
    {p \in [1..Cardinality(S) -> S] : \A i, j \in 1..Cardinality(S) : i /= j => p[i] /= p[j]}

\* Mutant of list_set: the list is left as the loop built it
list_set_keep(matches, order) == matches

\* list(set(final_names_to_query)); order: the iteration order of the set,
\* given as an order of all the reference names
list_set(matches, order) == SelectSeq(order, LAMBDA x : x \in Range(matches))

resolve(names, sc, pick, order) == list_set(matched(names, sc, pick), order)

-----------------------------------------------------------------------------
(* State machine *)

\* The local files and the database before the first run
InitLocal ==
    /\ tables \in {{}, {MAP_TEAMS_TABLE_NAME}}
    /\ logs = [c \in Cats |-> <<>>]
    /\ dim_players = <<>>
    /\ folder = [c \in Cats |-> {}]
    /\ archive = [c \in Cats |-> {}]
    /\ pc = "idle"
    /\ cat = "fantasy"
    /\ existing_logs_df = {}
    /\ existing_log_keys = {}
    /\ files_to_process = <<>>
    /\ fantasy_averages = {}
    /\ views = <<>>
    /\ exported = {}
    /\ today = 45
    /\ downloads = 0
    /\ runs = 0
    /\ runRead = <<>>
    /\ runAdded = {}
    /\ lastError = "none"
    /\ lastFile = ""
    /\ doneFiles = [c \in Cats |-> {}]
    /\ basis = NoBasis
    /\ aggHistory = NoAggregation
    /\ viewAttempts = <<>>
    /\ NoSlate

Init == InitLocal /\ NoDrive

\* drive_ingestion.download_file: a feed file is saved into the input folder
\* unless a file of that name is already there.
Download(c, f) ==
    /\ pc = "idle"
    /\ downloads < MaxDownloads
    /\ f \notin folder[c]
    /\ folder' = [folder EXCEPT ![c] = @ \cup {f}]
    /\ downloads' = downloads + 1
    /\ UNCHANGED <<tables, logs, dim_players, archive, pc, cat, existing_logs_df,
                   existing_log_keys, files_to_process, runs, runRead, runAdded,
                   lastError, lastFile, doneFiles, today>>
    /\ UNCHANGED summaryVars
    /\ UNCHANGED slateVars
    /\ UNCHANGED driveVars

\* main() up to the loop: initialize_database, the pre-load, the file list.
StartRun(c, dbFault) ==
    LET pre == preload(c, dbFault)
        files == sorted(c, folder[c])
    IN
    /\ pc = "idle"
    /\ runs < MaxRuns
    /\ runs' = runs + 1
    /\ tables' = tables \cup {PLAYERS_TABLE_NAME}
    /\ cat' = c
    /\ existing_logs_df' = pre.keys
    /\ existing_log_keys' = {}
    /\ lastError' = pre.error
    /\ IF pre.error /= "none" \/ files = <<>>
       THEN pc' = "idle" /\ files_to_process' = <<>>
       ELSE pc' = "loop" /\ files_to_process' = files
    /\ runRead' = <<>>
    /\ runAdded' = {}
    /\ lastFile' = ""
    /\ doneFiles' = [doneFiles EXCEPT ![c] = archive[c]]
    /\ UNCHANGED <<logs, dim_players, folder, archive, downloads, today>>
    /\ UNCHANGED summaryVars
    /\ UNCHANGED slateVars
    /\ UNCHANGED driveVars

\* One iteration of "for file_path in files_to_process", the except clause
\* and, after the last file or a break, the end of main().
ProcessFile(fault) ==
    LET f == Head(files_to_process)
        out == process_file(f, dim_players, logs[cat], existing_logs_df,
                            existing_log_keys, fault)
    IN
    /\ pc = "loop"
    /\ files_to_process /= <<>>
    /\ fault \in {"registry", "append"} =>
           /\ ~parse_fails(read_excel(f))
           /\ truly_new_logs(cleaned_data(read_excel(f)),
                             keys_for_file(existing_logs_df, existing_log_keys)) /= <<>>
    /\ dim_players' = out.registry
    /\ logs' = [logs EXCEPT ![cat] = out.stored]
    /\ tables' = IF out.stored /= logs[cat] THEN tables \cup {LOGS_TABLE_NAME(cat)} ELSE tables
    /\ existing_log_keys' = out.keys
    /\ IF out.moved
       THEN /\ folder' = [folder EXCEPT ![cat] = @ \ {f}]
            /\ archive' = [archive EXCEPT ![cat] = @ \cup {f}]
       ELSE UNCHANGED <<folder, archive>>
    /\ lastError' = out.error
    /\ lastFile' = f
    /\ runRead' = Append(runRead, f)
    /\ runAdded' = runAdded \cup out.added
    /\ IF out.error /= "none" /\ on_exception = "stop"
       THEN pc' = "idle" /\ files_to_process' = <<>>
       ELSE /\ files_to_process' = Tail(files_to_process)
            /\ pc' = IF Tail(files_to_process) = <<>> THEN "idle" ELSE "loop"
    /\ UNCHANGED <<cat, existing_logs_df, downloads, runs, doneFiles, today>>
    /\ UNCHANGED summaryVars
    /\ UNCHANGED slateVars
    /\ UNCHANGED driveVars

\* run_db_patch.fix_player_names: UPDATE dim_players SET PLAYER_NAME = ...
fix_names(registry) ==
    [i \in 1..Len(registry) |->
        IF registry[i].PLAYER_NAME = "GG Jackson"
        THEN [registry[i] EXCEPT !.PLAYER_NAME = "Gregory Jackson"]
        ELSE registry[i]]

FixPlayerNames ==
    /\ pc = "idle"
    /\ PLAYERS_TABLE_NAME \in tables
    /\ \E i \in 1..Len(dim_players) : dim_players[i].PLAYER_NAME = "GG Jackson"
    /\ dim_players' = fix_names(dim_players)
    /\ UNCHANGED <<tables, logs, folder, archive, pc, cat, existing_logs_df,
                   existing_log_keys, files_to_process, downloads, runs, runRead,
                   runAdded, lastError, lastFile, doneFiles, today>>
    /\ UNCHANGED summaryVars
    /\ UNCHANGED slateVars
    /\ UNCHANGED driveVars


\* run_summary_pipeline: the summary table, then the views, then the export.
\* aggFault: an exception inside create_fantasy_averages_table.
\* failing: the views whose CREATE VIEW raises; rollback: see create_view;
\* reads: the views the export reads before an exception ends it.
RunSummaryPipeline(aggFault, failing, rollback, reads) ==
    LET missing == ~(required_tables \subseteq tables)
        created == ~missing /\ ~aggFault
        inputs == [logs |-> logs["fantasy"], dim_players |-> dim_players, today |-> today]
        out == create_convenience_views(ViewNames,
                   [views |-> views, successful_views |-> <<>>, attempts |-> <<>>],
                   failing, rollback)
    IN
    /\ pc = "idle"
    /\ IF created
       THEN /\ fantasy_averages' = to_sql_replace(fantasy_averages,
                                    averages(logs["fantasy"], dim_players, today))
            /\ basis' = inputs
            /\ tables' = tables \cup {AVERAGES_TABLE_NAME}
       ELSE UNCHANGED <<fantasy_averages, basis, tables>>
    /\ IF views_wanted(created)
       THEN /\ views' = out.views
            /\ viewAttempts' = out.attempts
            /\ exported' = export_views_to_csv(out.successful_views, reads)
       ELSE UNCHANGED <<views, viewAttempts, exported>>
    /\ UNCHANGED <<logs, dim_players, folder, archive, pc, cat, existing_logs_df,
                   existing_log_keys, files_to_process, downloads, runs, runRead,
                   runAdded, lastError, lastFile, doneFiles, today>>
    /\ UNCHANGED slateVars
    /\ UNCHANGED driveVars

\* run_slate_averages_pipeline (script "vw") and run_slate_averages_smart_export
\* (script "csv").  pick: what process.extractOne returns for each name;
\* order: see list_set; createFails: CREATE VIEW raises; rollback: see
\* create_view.
RunSlatePipeline(script, pick, order, createFails, rollback) ==
    LET names == dk_names(dk_file)
        refs == valid_db_names(fantasy_averages)
        error == IF ViewNames[1] \notin Range(views) THEN "no such table"
                 ELSE IF names /= <<>> /\ refs = {} THEN "TypeError"
                 ELSE "none"
        final == resolve(names, scorer, pick, order)
    IN
    /\ pc = "idle"
    /\ dk_file.exists
    /\ IF error /= "none"
       THEN /\ final_names_to_query' = <<>>
            /\ slateResult' = error
            /\ UNCHANGED vw_daily_slate
       ELSE /\ final_names_to_query' = final
            /\ IF script = "csv"
               THEN slateResult' = "csv" /\ UNCHANGED vw_daily_slate
               ELSE IF createFails
                    THEN /\ slateResult' = "create view failed"
                         /\ vw_daily_slate' = IF rollback THEN vw_daily_slate
                                              ELSE [exists |-> FALSE, names |-> {}]
                    ELSE /\ slateResult' = "view"
                         /\ vw_daily_slate' = [exists |-> TRUE, names |-> Range(final)]
    /\ UNCHANGED <<dk_file, scorer>>
    /\ UNCHANGED ingestVars
    /\ UNCHANGED driveVars
    /\ UNCHANGED <<today, fantasy_averages, views, exported, basis, aggHistory, viewAttempts>>

\* The history of a step of RunSummaryPipeline(aggFault, ..), see NoAggregation.
Observed(aggFault) ==
    LET missing == ~(required_tables \subseteq tables)
        created == ~missing /\ ~aggFault
    IN  aggHistory' =
           [result |-> IF missing THEN "missing" ELSE IF aggFault THEN "failed" ELSE "ok",
            sameInputs |-> /\ created
                           /\ basis /= NoBasis
                           /\ basis.logs = basis'.logs
                           /\ basis.dim_players = basis'.dim_players,
            sameDay |-> created /\ basis.today = basis'.today,
            dropped |-> created /\ fantasy_averages \ fantasy_averages' /= {}]

Next ==
    \/ \E c \in Cats : \E f \in FileNames(c) : Download(c, f)
    \/ \E c \in Cats : \E dbFault \in {"none", "database is locked"} : StartRun(c, dbFault)
    \/ \E fault \in Faults : ProcessFile(fault)
    \/ FixPlayerNames
    \/ RunSummaryPipeline(FALSE, {}, TRUE, Len(ViewNames)) /\ UNCHANGED aggHistory

Spec == Init /\ [][Next]_vars

-----------------------------------------------------------------------------
(* The summary pipeline over drawn stores: fantasy_logs holds up to        *)
(* MaxLogRows rows of LogPool, dim_players every player of the feeds.      *)

stored(r) == [r EXCEPT !.DATE = strftime(to_datetime(r.DATE))]

KD2 == Row(3, "Kevin Durant", DateCell("datetime", 40), "Seattle", RegularSeg, "Y", 20, 30)

GG3 == Row(1, "GG Jackson", DateCell("datetime", 41), "Memphis Grizzlies", RegularSeg, "Y", 1, 8)

AJ3 == Row(2, "AJ Green", DateCell("datetime", 41), "Milwaukee", TournamentSeg, "Y", 9, 12)

KD3 == Row(3, "Kevin Durant", DateCell("datetime", 5), "Memphis", NoYearSeg, "N", 4, 6)

LogPool == <<stored(GG1), stored(GG2), stored(GG3), stored(AJ1), stored(AJ2), stored(AJ3),
             stored(KD1), stored(KD2), stored(KD3)>>

\* The stores with 1 to n rows, rows taken in pool order (the order of the
\* rows of the table has no part in the aggregation).  A row may repeat.
LogStores(n) ==
    UNION {{[i \in 1..k |-> LogPool[ix[i]]] :
                ix \in {f \in [1..k -> 1..Len(LogPool)] :
                            \A i \in 1..k : i < k => f[i] <= f[i + 1]}} : k \in 1..n}

Registries ==
    {<<[PLAYER_ID |-> 1, PLAYER_NAME |-> n1], [PLAYER_ID |-> 2, PLAYER_NAME |-> "AJ Green"],
       [PLAYER_ID |-> 3, PLAYER_NAME |-> "Kevin Durant"]>> :
        n1 \in {"GG Jackson", "Gregory Jackson"}}

\* The database after some ingestion runs, fantasy_logs being one of stores,
\* on the processing date day.
InitDatabaseOn(stores, day) ==
    /\ tables \in {required_tables \cup {LOGS_TABLE_NAME("player")},
                   required_tables \ {MAP_TEAMS_TABLE_NAME}}
    /\ logs \in {[c \in Cats |-> IF c = "fantasy" THEN lg
                               ELSE cleaned_data(<<GG2, KD1, AJ1>>)] :
                    lg \in stores}
    /\ dim_players \in Registries
    \* a canonical name is the display name of a stored row or the patched name
    /\ \A i \in 1..Len(dim_players) :
           \/ dim_players[i].PLAYER_NAME = "Gregory Jackson"
           \/ \E c \in Cats : \E j \in 1..Len(logs[c]) :
                  /\ logs[c][j].PLAYER_ID = dim_players[i].PLAYER_ID
                  /\ logs[c][j].PLAYER = dim_players[i].PLAYER_NAME
    /\ folder = [c \in Cats |-> {}]
    /\ archive = [c \in Cats |-> {}]
    /\ pc = "idle"
    /\ cat = "fantasy"
    /\ existing_logs_df = {}
    /\ existing_log_keys = {}
    /\ files_to_process = <<>>
    /\ fantasy_averages = {}
    /\ views = <<>>
    /\ exported = {}
    /\ today = day
    /\ downloads = 0
    /\ runs = 0
    /\ runRead = <<>>
    /\ runAdded = {}
    /\ lastError = "none"
    /\ lastFile = ""
    /\ doneFiles = [c \in Cats |-> {}]
    /\ basis = NoBasis
    /\ aggHistory = NoAggregation
    /\ viewAttempts = <<>>
    /\ NoDrive

InitDatabase(stores) == InitDatabaseOn(stores, 45)

InitPipeline(stores) == InitDatabase(stores) /\ NoSlate

InitAgg == InitPipeline(LogStores(MaxLogRows))

\* Processing time moves on by the length of the trailing window.
Tick ==
    /\ pc = "idle"
    /\ today + WindowDays <= LastDay
    /\ today' = today + WindowDays
    /\ UNCHANGED ingestVars
    /\ UNCHANGED <<fantasy_averages, views, exported, basis, aggHistory, viewAttempts>>
    /\ UNCHANGED slateVars
    /\ UNCHANGED driveVars

NextAgg ==
    \/ \E aggFault \in BOOLEAN :
           RunSummaryPipeline(aggFault, {}, TRUE, Len(ViewNames)) /\ Observed(aggFault)
    \/ FixPlayerNames
    \/ Tick

AggSpec == InitAgg /\ [][NextAgg]_vars

\* The date of the oldest row of the pool
FirstDate ==
    CHOOSE d \in {parse_date(LogPool[i].DATE) : i \in 1..Len(LogPool)} :
        \A i \in 1..Len(LogPool) : d <= parse_date(LogPool[i].DATE)

\* The same stores on the processing date whose trailing window begins on
\* the date of the oldest row.
InitWindow == InitDatabaseOn(LogStores(MaxLogRows), FirstDate + WindowDays) /\ NoSlate

WindowSpec == InitWindow /\ [][NextAgg]_vars

-----------------------------------------------------------------------------
(* The summary pipeline with its view and export failures, over a few      *)
(* stores.                                                                  *)

ViewStores ==
    {<<stored(GG1)>>, <<stored(AJ2)>>, <<stored(GG1), stored(AJ2)>>,
     <<stored(GG2), stored(AJ1), stored(KD1)>>}

InitView == InitPipeline(ViewStores)

NextView ==
    \E aggFault \in BOOLEAN : \E failing \in SUBSET Range(ViewNames) :
        \E rollback \in BOOLEAN : \E reads \in 0..Len(ViewNames) :
            RunSummaryPipeline(aggFault, failing, rollback, reads) /\ Observed(aggFault)

ViewSpec == InitView /\ [][NextView]_vars

-----------------------------------------------------------------------------
(* The Drive job over the lists a Drive query can return.                  *)

MaxItems == 2

\* config.DATASET_JOBS, named by the category of their destination folder
DATASET_JOBS == <<"fantasy", "player">>

\* The lists of up to MaxItems files of the feed of c, in the order of
\* orderBy="createdTime"; the id of a file is its place in the list.
DriveLists(c) ==
    UNION {{[i \in 1..k |-> Item(i, name[i], time[i])] :
                name \in [1..k -> FileNames(c)],
                time \in {t \in [1..k -> 1..MaxItems] :
                              \A i \in 1..k : i < k => t[i] <= t[i + 1]}} : k \in 0..MaxItems}

InitDrive ==
    /\ InitLocal
    /\ \E f \in DriveLists("fantasy"), p \in DriveLists("player") :
           drive = [c \in Cats |-> IF c = "fantasy" THEN f ELSE p]
    /\ latest_file = [c \in Cats |-> NotRun]

\* drive_ingestion.main: the jobs in order, each find_latest_file and then
\* download_file, which leaves a file that is already there alone.  stop is
\* the job whose Drive query raises ("none": no query raises); the exception
\* ends main.
DriveMain(stop) ==
    LET done(c) ==
            \E i \in 1..Len(DATASET_JOBS) :
                /\ DATASET_JOBS[i] = c
                /\ \A j \in 1..i : DATASET_JOBS[j] /= stop
        found(c) == find_latest_file(drive[c])
    IN
    /\ pc = "idle"
    /\ latest_file' = [c \in Cats |-> IF done(c) THEN found(c) ELSE latest_file[c]]
    /\ folder' = [c \in Cats |->
                     IF done(c) /\ found(c).found = "file"
                     THEN folder[c] \cup {found(c).file.name}
                     ELSE folder[c]]
    /\ UNCHANGED <<tables, logs, dim_players, archive, pc, cat, existing_logs_df,
                   existing_log_keys, files_to_process, downloads, runs, runRead,
                   runAdded, lastError, lastFile, doneFiles, today, drive>>
    /\ UNCHANGED summaryVars
    /\ UNCHANGED slateVars

NextDrive == \E stop \in {"none"} \cup Range(DATASET_JOBS) : DriveMain(stop)

DriveSpec == InitDrive /\ [][NextDrive]_vars

-----------------------------------------------------------------------------
(* The slate scripts over a few stores, slate files and scorers.           *)

MaxSlate == 2

ExternalNames == {"A.J. Green", "Greg Jackson"}

ReferenceNames == {"Gregory Jackson", "AJ Green"}

Scores == {89, 90, 100}

NextSeasonSeg == <<Word("NBA"), Digits(2025), Word("-"), Digits(26), Word("Regular Season")>>

\* a 2024-25 season of MinGames games of player 1, and a game of players 1
\* and 2 in 2025-26
TwoSeasons ==
    [i \in 1..MinGames |->
        stored(Row(1, "Gregory Jackson", DateCell("datetime", i), "Memphis", RegularSeg,
                   "Y", 10, 20))]
    \o <<stored(Row(1, "Gregory Jackson", DateCell("datetime", 60), "Memphis",
                     NextSeasonSeg, "Y", 12, 24)),
          stored(Row(2, "AJ Green", DateCell("datetime", 60), "Milwaukee",
                     NextSeasonSeg, "N", 6, 12))>>

FuzzyStores == {<<stored(GG1), stored(AJ1)>>, <<stored(GG1)>>, <<stored(AJ2)>>}

\* DKEntries.csv: absent, or with up to MaxSlate rows
DKFiles ==
    {[exists |-> FALSE, Name |-> <<>>]}
        \cup {[exists |-> TRUE, Name |-> n] :
                  n \in UNION {[1..k -> ExternalNames] : k \in 0..MaxSlate}}

\* The database and the Downloads folder before a slate run
InitSlate(stores, scores) ==
    /\ InitDatabase(stores)
    /\ dim_players[1].PLAYER_NAME = "Gregory Jackson"
    /\ dk_file \in DKFiles
    /\ scorer \in [ExternalNames \X ReferenceNames -> scores]
    /\ final_names_to_query = <<>>
    /\ vw_daily_slate = [exists |-> FALSE, names |-> {}]
    /\ slateResult = "none"

InitFuzzy == InitSlate(FuzzyStores, Scores)

NextFuzzy ==
    \/ RunSummaryPipeline(FALSE, {}, TRUE, Len(ViewNames)) /\ Observed(FALSE)
    \/ \E script \in {"vw", "csv"} : \E createFails, rollback \in BOOLEAN :
           \E pick \in extractOne(dk_names(dk_file), valid_db_names(fantasy_averages), scorer) :
               \E order \in Orders(valid_db_names(fantasy_averages)) :
                   RunSlatePipeline(script, pick, order, createFails, rollback)

FuzzySpec == InitFuzzy /\ [][NextFuzzy]_vars

\* The slate scripts over a store of two seasons.
InitTwoSeasons == InitSlate({TwoSeasons}, {89, 90})

SlateSpec == InitTwoSeasons /\ [][NextFuzzy]_vars

-----------------------------------------------------------------------------
(* Properties *)

IsPrefix(s, t) == Len(s) <= Len(t) /\ SubSeq(t, 1, Len(s)) = s

FailedStep == pc = "loop" /\ lastError' /= "none"

\* C1: no two rows of a category's raw record store have the same dedup key
\* (player identifier, calendar date).
C1_DedupKeyUnique ==
    \A c \in Cats : \A i, j \in 1..Len(logs[c]) :
        i /= j => row_key(logs[c][i]) /= row_key(logs[c][j])

\* C2: within one run, a key appended from an earlier file of the run is not
\* appended again from a later file of the same run.
C2_InRunSuppression ==
    [][pc = "loop" =>
          \A i \in (Len(logs[cat]) + 1)..Len(logs'[cat]) :
              row_key(logs'[cat][i]) \notin runAdded]_vars

\* C3: a file that an earlier run ingested and archived, presented again to a
\* later run, adds no row to the raw record store and no row to the registry.
C3_ReingestAddsNothing ==
    [][(pc = "loop" /\ files_to_process /= <<>> /\ Head(files_to_process) \in doneFiles[cat])
          => (logs' = logs /\ dim_players' = dim_players)]_vars

C3_Witness ==
    /\ lastFile /= "" /\ lastFile \in doneFiles[cat] /\ lastError = "none"
    /\ \E i \in 1..Len(logs[cat]) : \E j \in 1..Len(read_excel(lastFile)) :
           logs[cat][i].PLAYER_ID = read_excel(lastFile)[j].PLAYER_ID

\* C4: when a file raises, the file stays in the input folder, the run ends
\* without visiting any later file, and the archive keeps the files moved
\* before.
C4_FailFast ==
    [][FailedStep =>
          /\ pc' = "idle"
          /\ files_to_process' = <<>>
          /\ folder' = folder
          /\ archive' = archive
          /\ Head(files_to_process) \in folder'[cat]
          /\ runRead' = Append(runRead, Head(files_to_process))]_vars

C4_Witness ==
    /\ cat = "fantasy"
    /\ pc = "idle" /\ lastError \in Faults \cup {"parse"} /\ lastError /= "none"
    /\ Len(runRead) = 2
    /\ runRead[1] \in archive[cat]
    /\ lastFile = FileOrder(cat)[2]
    /\ lastFile \in folder[cat]
    /\ FileOrder(cat)[3] \in folder[cat]

\* C5: when processing of a file fails at any step, the registry and the raw
\* record store are exactly as they were before the file was started.
C5_AtomicPerFile ==
    [][FailedStep => (logs' = logs /\ dim_players' = dim_players)]_vars

\* C6: every player identifier occurs at most once in the registry, and the
\* registry insert never meets an identifier it has inserted before.
C6_RegistryUnique ==
    /\ \A i, j \in 1..Len(dim_players) :
           i /= j => dim_players[i].PLAYER_ID /= dim_players[j].PLAYER_ID
    /\ lastError /= "integrity"

C6_Witness ==
    /\ Cardinality({i \in 1..Len(dim_players) : dim_players[i].PLAYER_ID = 1}) = 1
    /\ Cardinality({i \in 1..Len(logs["fantasy"]) : logs["fantasy"][i].PLAYER_ID = 1}) >= 3
    /\ Len(runRead) >= 2
    /\ \E i \in 1..Len(logs["player"]) : logs["player"][i].PLAYER_ID = 1

\* C7: an ingestion step leaves every row of the registry as it is (rows are
\* only added); a step that changes a row is the name patch.
C7_RegistryAppendOnly ==
    [][\/ IsPrefix(dim_players, dim_players')
       \/ /\ pc = "idle" /\ pc' = "idle" /\ runs' = runs
          /\ logs' = logs
          /\ Len(dim_players') = Len(dim_players)
          /\ \A i \in 1..Len(dim_players) :
                 /\ dim_players'[i].PLAYER_ID = dim_players[i].PLAYER_ID
                 /\ dim_players'[i].PLAYER_NAME /= dim_players[i].PLAYER_NAME
                        => /\ dim_players[i].PLAYER_NAME = "GG Jackson"
                           /\ dim_players'[i].PLAYER_NAME = "Gregory Jackson"]_vars

C7_Witness ==
    /\ \E i \in 1..Len(dim_players) :
           /\ dim_players[i].PLAYER_ID = 1
           /\ dim_players[i].PLAYER_NAME = "GG Jackson"
    /\ \E i \in 1..Len(logs["fantasy"]) :
           /\ logs["fantasy"][i].PLAYER_ID = 1
           /\ logs["fantasy"][i].PLAYER = "Gregory Jackson"

\* C8: every step keeps the rows of each raw record store, in place and
\* unchanged, and only a step of the ingestion loop adds rows.
C8_LogsAppendOnly ==
    [][\A c \in Cats :
          /\ IsPrefix(logs[c], logs'[c])
          /\ logs'[c] /= logs[c] => (pc = "loop" /\ cat = c)]_vars

C8_Witness ==
    /\ basis.logs /= <<>>
    /\ views /= <<>>
    /\ Len(logs["fantasy"]) > Len(basis.logs)

\* C9: a run that starts while its log table does not exist goes on to the
\* files with an empty key set, and every row of its first file is stored.
C9_FirstRun ==
    [][/\ (pc = "idle" /\ runs' /= runs /\ LOGS_TABLE_NAME(cat') \notin tables
             /\ folder[cat'] /= {})
          => (pc' = "loop" /\ existing_logs_df' = {} /\ lastError' = "none")
       /\ (pc = "loop" /\ runRead = <<>> /\ LOGS_TABLE_NAME(cat) \notin tables
             /\ lastError' = "none")
          => logs'[cat] = cleaned_data(read_excel(Head(files_to_process)))]_vars

C9_Witness ==
    /\ Len(runRead) = 1 /\ lastError = "none"
    /\ doneFiles[cat] = {}
    /\ logs[cat] /= <<>>
    /\ Len(logs[cat]) = Len(read_excel(runRead[1]))
    /\ LOGS_TABLE_NAME(cat) \in tables

\* r, in hundredths, is p / m rounded to two decimals, and 0 when m is 0
IsRateOf(r, p, m) ==
    IF m = 0 THEN r = 0
    ELSE /\ 2 * (r * m - 100 * p) <= m
         /\ 2 * (100 * p - r * m) <= m

\* The records of the summary's basis that are counted in row g
Contributing(g) ==
    {r \in prepared(basis.logs, basis.dim_players) :
        /\ r.SEASON_TYPE = g.SEASON_TYPE /\ r.PLAYER_ID = g.PLAYER_ID
        /\ r.PLAYER = g.PLAYER /\ r.SEASON_KEY = g.SEASON
        /\ r.TEAM_ABBREVIATION = g.TEAM}

\* C10: in every summary row FPPM, GSFPPM and L30FPPM are the sum of points
\* over the sum of minutes of the contributing records (all, started, in the
\* trailing window), rounded to two decimals, and 0 when the minute sum is 0.
C10_RatesAreSumOverSum ==
    \A g \in fantasy_averages :
        LET all == Contributing(g)
            gs == {r \in all : r.STARTED = "Y"}
            l30 == {r \in all : r.DATE >= basis.today - WindowDays}
        IN  /\ IsRateOf(g.FPPM, SumOver(all, "DK_POINTS"), SumOver(all, "MINUTES"))
            /\ IsRateOf(g.GSFPPM, SumOver(gs, "DK_POINTS"), SumOver(gs, "MINUTES"))
            /\ IsRateOf(g.L30FPPM, SumOver(l30, "DK_POINTS"), SumOver(l30, "MINUTES"))

C10_Witness ==
    /\ \E g \in fantasy_averages :
           /\ g.GP = 2 /\ g.GS = 1 /\ g.FPPM = 114 /\ g.GSFPPM = 100 /\ g.L30FPPM = 200
    /\ \E g \in fantasy_averages :
           /\ g.MINUTES_sum = 0 /\ g.DK_POINTS_sum > 0 /\ g.FPPM = 0

\* the columns computed from the trailing window
WindowColumns == {"L30_DK_POINTS_sum", "L30_MINUTES_sum", "L30FPPM"}

NonWindow(T) == {[c \in (DOMAIN r) \ WindowColumns |-> r[c]] : r \in T}

\* C11 (as stated): an aggregation over the raw record store and registry
\* that the previous aggregation read leaves the summary table as it was,
\* in every column.
C11_SameInputsSameTable ==
    [][aggHistory'.sameInputs => fantasy_averages' = fantasy_averages]_vars

\* C11 (amended): an aggregation over the raw record store and registry that
\* the previous aggregation read leaves every column but the trailing-window
\* ones as it was, and the whole table when it runs on the same date.
C11_SameInputsSameDate ==
    [][aggHistory'.sameInputs =>
          /\ NonWindow(fantasy_averages') = NonWindow(fantasy_averages)
          /\ aggHistory'.sameDay => fantasy_averages' = fantasy_averages]_vars

\* a second aggregation of the same store on the same date, over a table
\* that holds a trailing-window rate
C11_Witness ==
    /\ aggHistory.result = "ok"
    /\ aggHistory.sameInputs
    /\ aggHistory.sameDay
    /\ \E g \in fantasy_averages : g.L30FPPM > 0

\* The key columns of the groups of the summary's basis, and the records of
\* the basis that fall in the group of row g
BasisRecords(g) ==
    {r \in prepared(basis.logs, basis.dim_players) :
        /\ r.SEASON_TYPE = g.SEASON_TYPE
        /\ r.PLAYER_ID = g.PLAYER_ID
        /\ r.PLAYER = g.PLAYER
        /\ r.SEASON_KEY = g.SEASON
        /\ r.TEAM_ABBREVIATION = g.TEAM}

\* C12: after a successful aggregation every row of the summary table is
\* derived from the records the aggregation read (it counts exactly the
\* records of its group, at least one), and every group of those records
\* that the grouping keeps has its row.
C12_FullReplacement ==
    basis /= NoBasis =>
        /\ \A g \in fantasy_averages :
               BasisRecords(g) /= {} /\ g.GP = Cardinality(BasisRecords(g))
        /\ \A r \in prepared(basis.logs, basis.dim_players) :
               (r.PLAYER /= Null /\ r.TEAM_ABBREVIATION /= Null) =>
                   \E g \in fantasy_averages : r \in BasisRecords(g)

\* the registry was patched between two aggregations: the row under the old
\* name is gone, the group is in the table under the new name
C12_Witness ==
    /\ aggHistory.result = "ok"
    /\ aggHistory.dropped
    /\ \E i \in 1..Len(basis.logs) : basis.logs[i].PLAYER = "GG Jackson"
    /\ \E g \in fantasy_averages : g.PLAYER_ID = 1 /\ g.PLAYER = "Gregory Jackson"
    /\ \A g \in fantasy_averages : g.PLAYER /= "GG Jackson"

\* C13: while one of the three required tables is missing, a pipeline run
\* reports the failure and leaves the tables of the database, the summary
\* table, the views and the export as they were; no view is tried.
C13_MissingTableWritesNothing ==
    [][~(required_tables \subseteq tables) =>
          /\ aggHistory'.result = "missing"
          /\ tables' = tables
          /\ fantasy_averages' = fantasy_averages
          /\ views' = views
          /\ viewAttempts' = viewAttempts
          /\ exported' = exported]_vars

\* a run that found the team mapping missing beside a filled raw store
C13_Witness ==
    /\ aggHistory.result = "missing"
    /\ MAP_TEAMS_TABLE_NAME \notin tables
    /\ logs["fantasy"] /= <<>>
    /\ AVERAGES_TABLE_NAME \notin tables
    /\ views = <<>>
    /\ exported = {}

\* the views the last create_convenience_views created
CreatedViews == {viewAttempts[i].view : i \in {j \in DOMAIN viewAttempts : viewAttempts[j].created}}

\* C18: once an aggregation has succeeded, the last view creation tried both
\* views in order whatever became of the first, the views it created exist,
\* and the export read none but those.
C18_ViewFailuresIsolated ==
    AVERAGES_TABLE_NAME \in tables =>
        /\ [i \in DOMAIN viewAttempts |-> viewAttempts[i].view] = ViewNames
        /\ CreatedViews \subseteq Range(views)
        /\ exported \subseteq CreatedViews

\* the first view failed, the second one was created and exported
C18_Witness ==
    /\ viewAttempts = <<[view |-> ViewNames[1], created |-> FALSE],
                        [view |-> ViewNames[2], created |-> TRUE]>>
    /\ exported = {ViewNames[2]}
    /\ ViewNames[2] \in Range(views)

\* C19: a view that exists and whose CREATE VIEW fails in a pipeline run is
\* still there after the run.
C19_DropRolledBack ==
    [][aggHistory'.result = "ok" =>
          \A i \in DOMAIN viewAttempts' :
              (~viewAttempts'[i].created /\ viewAttempts'[i].view \in Range(views))
                  => viewAttempts'[i].view \in Range(views')]_vars

\* C14: every record the last aggregation read whose team has no mapping
\* entry is counted in a row of the summary table with a null abbreviation.
C14_UnmappedTeamCounted ==
    basis /= NoBasis =>
        \A r \in prepared(basis.logs, basis.dim_players) :
            r.TEAM_ABBREVIATION = Null =>
                \E g \in fantasy_averages : g.TEAM = Null /\ r \in BasisRecords(g)

\* a segment that matches one of the two patterns and holds a four-digit year
Classifiable(seg) ==
    /\ \E i \in 1..Len(seg) :
           /\ seg[i].k = "w"
           /\ seg[i].s \in {"Regular Season", "In-Season Tournament", "Playoffs", "Play-In"}
    /\ \E i \in 1..Len(seg) : seg[i].k = "d" /\ seg[i].n >= 1000

\* C15: a record the last aggregation read is counted in a row of the
\* summary table if and only if its segment can be classified.
C15_ContributesIffClassified ==
    basis /= NoBasis =>
        \A i \in 1..Len(basis.logs) :
            Classifiable(basis.logs[i].SEASON_SEGMENT)
                <=> \E g \in fantasy_averages : \E r \in BasisRecords(g) : r.ix = i

\* the season type and season key the segments of the stores stand for
ExpectedSeason(seg) ==
    CASE seg = RegularSeg -> <<"Regular", "2024-25">>
      [] seg = TournamentSeg -> <<"Regular", "1999-00">>
      [] seg = PlayoffSeg -> <<"Playoffs", "2025">>
      [] OTHER -> <<Null, Null>>

\* C16: every row of the summary table carries the season type and the
\* season key of the segment of each record it counts: start year, '-' and
\* the last two digits of the next year for a regular-season segment, the
\* year for a playoff segment, Regular for a segment matching both patterns.
C16_SeasonKey ==
    basis /= NoBasis =>
        \A g \in fantasy_averages : \A r \in BasisRecords(g) :
            <<g.SEASON_TYPE, g.SEASON>> = ExpectedSeason(basis.logs[r.ix].SEASON_SEGMENT)

\* a table with a row of each kind
C16_Witness ==
    /\ \E g \in fantasy_averages : g.SEASON_TYPE = "Regular" /\ g.SEASON = "2024-25"
    /\ \E g \in fantasy_averages : g.SEASON_TYPE = "Regular" /\ g.SEASON = "1999-00"
    /\ \E g \in fantasy_averages : g.SEASON_TYPE = "Playoffs" /\ g.SEASON = "2025"

\* C17: no two rows of the summary table agree in season type, player
\* identifier, season key and team abbreviation.
C17_OneRowPerGroup ==
    \A g, h \in fantasy_averages :
        (/\ g.SEASON_TYPE = h.SEASON_TYPE
         /\ g.PLAYER_ID = h.PLAYER_ID
         /\ g.SEASON = h.SEASON
         /\ g.TEAM = h.TEAM) => g = h

\* one row counts two records of a player whose raw team names differ and
\* map to the same abbreviation
C17_Witness ==
    \E g \in fantasy_averages :
        /\ g.GP = 2
        /\ \E r, q \in BasisRecords(g) :
               basis.logs[r.ix].TEAM /= basis.logs[q.ix].TEAM

\* the best score of an external name over the reference names
BestScore(n, refs) ==
    CHOOSE v \in Scores :
        /\ \E r \in refs : scorer[<<n, r>>] = v
        /\ \A r \in refs : scorer[<<n, r>>] <= v

\* C20: after a slate run that got as far as the matching, every name of
\* the slate whose best score is 90 or more has one of its best-scoring
\* reference names in the output, every name of the output is a best match
\* with a score of 90 or more of some name of the slate, and the matching
\* raised an error only when there was no reference name at all.
C20_AcceptedIffThreshold ==
    LET refs == valid_db_names(fantasy_averages)
        names == {dk_file.Name[i] : i \in 1..Len(dk_file.Name)}
    IN  /\ slateResult = "TypeError" => refs = {}
        /\ slateResult \in {"view", "csv", "create view failed"} =>
               /\ \A n \in names :
                      (refs /= {} /\ BestScore(n, refs) >= 90) =>
                          \E m \in Range(final_names_to_query) :
                              scorer[<<n, m>>] = BestScore(n, refs)
               /\ \A m \in Range(final_names_to_query) :
                      \E n \in names :
                          /\ m \in refs
                          /\ scorer[<<n, m>>] = BestScore(n, refs)
                          /\ scorer[<<n, m>>] >= 90

\* a slate of two names: the best score of the first is 89, of the second
\* exactly 90; the output holds the match of the second only
C20_Witness ==
    /\ slateResult = "view"
    /\ dk_file.Name = <<"Greg Jackson", "A.J. Green">>
    /\ scorer[<<"Greg Jackson", "Gregory Jackson">>] = 89
    /\ scorer[<<"Greg Jackson", "AJ Green">>] = 89
    /\ scorer[<<"A.J. Green", "AJ Green">>] = 90
    /\ scorer[<<"A.J. Green", "Gregory Jackson">>] = 89
    /\ valid_db_names(fantasy_averages) = ReferenceNames
    /\ final_names_to_query = <<"AJ Green">>

\* C21: the list of resolved names holds no name twice, and each of its
\* names is a reference name.
C21_OutputDeduplicated ==
    /\ \A i, j \in 1..Len(final_names_to_query) :
           i /= j => final_names_to_query[i] /= final_names_to_query[j]
    /\ \A i \in 1..Len(final_names_to_query) :
           final_names_to_query[i] \in valid_db_names(fantasy_averages)

\* two spellings of the slate resolve to one reference name, which the
\* output holds once
C21_Witness ==
    /\ slateResult \in {"view", "csv"}
    /\ dk_file.Name = <<"Greg Jackson", "A.J. Green">>
    /\ scorer[<<"Greg Jackson", "AJ Green">>] = 90
    /\ scorer[<<"Greg Jackson", "Gregory Jackson">>] = 89
    /\ scorer[<<"A.J. Green", "AJ Green">>] = 100
    /\ scorer[<<"A.J. Green", "Gregory Jackson">>] = 89
    /\ final_names_to_query = <<"AJ Green">>

\* C22: after a slate run that created vw_daily_slate, every row the view
\* returns is a row of a player the run resolved.
C22_ViewRestrictedToSlate ==
    slateResult = "view" =>
        \A g \in vw_daily_slate_rows(fantasy_averages, vw_daily_slate.names) :
            g.PLAYER \in Range(final_names_to_query)

KnownFile(f) ==
    /\ ~parse_fails(read_excel(f))
    /\ \A r \in Range(cleaned_data(read_excel(f))) : row_key(r) \in load_log_keys(cat)

\* C25: an iteration that raises nothing, over a file all of whose rows have
\* keys the store already holds, moves the file to the archive, leaves the
\* raw record store and the registry as they were and goes on with the next
\* file of the list.
C25_KnownFileIsSuccess ==
    [][(pc = "loop" /\ files_to_process /= <<>> /\ KnownFile(Head(files_to_process))
            /\ lastError' = "none") =>
          /\ logs' = logs
          /\ dim_players' = dim_players
          /\ Head(files_to_process) \in archive'[cat]
          /\ Head(files_to_process) \notin folder'[cat]
          /\ files_to_process' = Tail(files_to_process)]_vars

\* C26: in every row of the summary table the L30 point and minute sums are
\* the sums over the records of the group dated on or after the processing
\* date minus 30 days, while GP, the point and minute sums and means and the
\* overall rate are taken over all the records of the group.
C26_TrailingWindow ==
    basis /= NoBasis =>
        \A g \in fantasy_averages :
            LET all == BasisRecords(g)
                l30 == {r \in all : r.DATE >= basis.today - 30}
            IN  /\ g.L30_DK_POINTS_sum = SumOver(l30, "DK_POINTS")
                /\ g.L30_MINUTES_sum = SumOver(l30, "MINUTES")
                /\ g.GP = Cardinality(all)
                /\ g.DK_POINTS_sum = SumOver(all, "DK_POINTS")
                /\ g.MINUTES_sum = SumOver(all, "MINUTES")
                /\ g.FPPG = mean(all, "DK_POINTS", 100)
                /\ g.MPG = mean(all, "MINUTES", 10)
                /\ IsRateOf(g.FPPM, SumOver(all, "DK_POINTS"), SumOver(all, "MINUTES"))

\* a group of two games, one dated before the window of the aggregation and
\* one inside it: both are in GP, the sums and the means, one in the L30 sums
C26_Witness ==
    /\ basis.today = FirstDate + 2 * WindowDays
    /\ \E g \in fantasy_averages :
           /\ \E r \in BasisRecords(g) : r.DATE = FirstDate
           /\ g.GP = 2 /\ g.DK_POINTS_sum = 40 /\ g.MINUTES_sum = 35
           /\ g.FPPG = 2000 /\ g.MPG = 175 /\ g.FPPM = 114
           /\ g.L30_DK_POINTS_sum = 10 /\ g.L30_MINUTES_sum = 5

\* v is scale * sum / n rounded to the nearest integer
IsMeanOf(v, sum, n, scale) ==
    /\ 2 * (v * n - scale * sum) <= n
    /\ 2 * (scale * sum - v * n) <= n

\* C27: in every row of the summary table GP is the number of records of
\* the group and GS the number of them that were started; the starter sums,
\* means and rate are those of the started records alone (the means are 0
\* when no record was started).
C27_StarterAggregates ==
    basis /= NoBasis =>
        \A g \in fantasy_averages :
            LET all == BasisRecords(g)
                gs == {r \in all : basis.logs[r.ix].STARTED = "Y"}
                points == SumOver(gs, "DK_POINTS")
                minutes == SumOver(gs, "MINUTES")
            IN  /\ g.GP = Cardinality(all)
                /\ g.GS = Cardinality(gs)
                /\ g.GS <= g.GP
                /\ g.GS_DK_POINTS_sum = points
                /\ g.GS_MINUTES_sum = minutes
                /\ IF gs = {} THEN g.GSFPPG = 0 /\ g.GSMPG = 0
                   ELSE /\ IsMeanOf(g.GSFPPG, points, Cardinality(gs), 100)
                        /\ IsMeanOf(g.GSMPG, minutes, Cardinality(gs), 10)
                /\ IsRateOf(g.GSFPPM, points, minutes)

\* a group of one started and one not started game
C27_Witness ==
    \E g \in fantasy_averages :
        /\ g.GP = 2 /\ g.GS = 1
        /\ g.FPPG = 2000 /\ g.GSFPPG = 3000
        /\ g.MPG = 175 /\ g.GSMPG = 300
        /\ g.GS_DK_POINTS_sum = 30 /\ g.GS_MINUTES_sum = 30 /\ g.GSFPPM = 100

\* C28: every player identifier of a row of a raw record store is the
\* identifier of a row of the registry, whatever runs of either category
\* have ended or halted before.
C28_StoredPlayersRegistered ==
    \A c \in Cats : \A i \in 1..Len(logs[c]) :
        \E j \in 1..Len(dim_players) : dim_players[j].PLAYER_ID = logs[c][i].PLAYER_ID

\* a run has halted between the registry insert and the record append of a
\* file: the registry holds a player without a record, next to the players
\* of the rows an earlier run stored
C28_Witness ==
    /\ pc = "idle" /\ lastError = "append"
    /\ \E c \in Cats : logs[c] /= <<>>
    /\ \E j \in 1..Len(dim_players) : \A c \in Cats : \A i \in 1..Len(logs[c]) :
           logs[c][i].PLAYER_ID /= dim_players[j].PLAYER_ID

=============================================================================
